---- MODULE Spec2Model ----
(***************************************************************************)
(* Model of the game core of bowber/Copilot-Game:                          *)
(*   src/game/src/game_state.rs  GameState (screen, region, player, ball)  *)
(*   src/game/src/input.rs       InputHandler / InputState / InputEvent    *)
(*   src/game/src/lib.rs         Game (wasm facade), LegacyBallState       *)
(*                                                                         *)
(* Numbers.  Every f64 the program computes is a multiple of 0.5: world    *)
(* sizes are whole (u32 in Game::resize, canvas sizes in Game::new), the   *)
(* only division is "/ 2.0" of a world size, and everything else adds or   *)
(* compares whole numbers.  A stored value is therefore kept as the        *)
(* integer count of half units (Fx(n) stands for the f64 n.0, Fx(n) + 1    *)
(* for n.5), which is exact.  The thresholds height / 3.0 and              *)
(* 2.0 * height / 3.0 are only compared with a coordinate, and the         *)
(* comparison is done on the cross-multiplied integers.                    *)
(*                                                                         *)
(* Option<T>: None is the string "None", Some(v) is v.                     *)
(***************************************************************************)
EXTENDS Integers, Sequences, FiniteSets

VARIABLES
    state,          \* Game.state : GameState            (lib.rs:25)
    input_handler,  \* Game.input_handler : InputHandler (lib.rs:26)
    width,          \* Game.width                        (lib.rs:27)
    height,         \* Game.height                       (lib.rs:28)
    legacy,         \* a LegacyBallState                 (lib.rs:33-40)
    call,           \* the last operation called and what it returned
    panicked,       \* a Rust panic has aborted the program
    keys_down       \* the movement keys the host's keyboard holds down

vars ==
    <<state, input_handler, width, height, legacy, call, panicked, keys_down>>

None == "None"

\* The f64 n.0 as a count of half units.
Fx(n) == 2 * n

----------------------------------------------------------------------------
(* Program constants *)

BALL_RADIUS == 25
DEFAULT_BALL_SPEED_X == 3
DEFAULT_BALL_SPEED_Y == 2
GameState_BALL_RADIUS == 25
MOVEMENT_SPEED == 5

----------------------------------------------------------------------------
(* Bounds of the model *)

\* SpecMove: world sizes 0..MaxMoveWorld (whole units), deltas up to
\* MaxDelta half units either way.
MaxMoveWorld == 3
MaxDelta == 8
\* SpecBall: the widest world is 2 * BALL_RADIUS + MaxBallSlack.
MaxBallSlack == 10
\* The pointer coordinates the properties probe process_input_event with:
\* from one unit left of / above the window to MaxProbe units.
MaxProbe == 85
\* The longest sequence of input events the properties follow from a screen.
MaxPath == 3

MoveWorldSizes == 0..MaxMoveWorld
Deltas == (-MaxDelta)..MaxDelta
BallWorldSizes ==
    {2 * BALL_RADIUS - 1, 2 * BALL_RADIUS, 2 * BALL_RADIUS + 3,
     2 * BALL_RADIUS + MaxBallSlack}

----------------------------------------------------------------------------
(* f64::clamp, as move_player and the ball updates use it.  It panics when *)
(* min > max; the callers below test that before they use it.              *)

clamp(x, min, max) == IF x < min THEN min ELSE IF x > max THEN max ELSE x

clamp_panics(min, max) == min > max

----------------------------------------------------------------------------
(* game_state.rs : GameState *)

GameState_new_login(w, h) ==
    [ current_screen  |-> "LoginScreen",
      selected_region |-> None,
      player_name     |-> None,
      is_loading      |-> FALSE,
      error_message   |-> None,
      player_x        |-> w \div 2,
      player_y        |-> h \div 2,
      world_width     |-> w,
      world_height    |-> h,
      ball_x          |-> w \div 2,
      ball_y          |-> h \div 2,
      ball_dx         |-> Fx(3),
      ball_dy         |-> Fx(2) ]

GameState_new_no_region(w, h) ==
    [ current_screen  |-> "GameHUD",
      selected_region |-> None,
      player_name     |-> "Player",
      is_loading      |-> FALSE,
      error_message   |-> None,
      player_x        |-> w \div 2,
      player_y        |-> h \div 2,
      world_width     |-> w,
      world_height    |-> h,
      ball_x          |-> w \div 2,
      ball_y          |-> h \div 2,
      ball_dx         |-> Fx(3),
      ball_dy         |-> Fx(2) ]

GameState_new(w, h) ==
    [ current_screen  |-> "GameHUD",
      selected_region |-> "EU",
      player_name     |-> "Player",
      is_loading      |-> FALSE,
      error_message   |-> None,
      player_x        |-> w \div 2,
      player_y        |-> h \div 2,
      world_width     |-> w,
      world_height    |-> h,
      ball_x          |-> w \div 2,
      ball_y          |-> h \div 2,
      ball_dx         |-> Fx(3),
      ball_dy         |-> Fx(2) ]

transition_to_keeps_error(s, screen) == [s EXCEPT !.current_screen = screen]

transition_to_drops_region(s, screen) ==
    [s EXCEPT !.current_screen = screen, !.error_message = None,
              !.selected_region = None]

transition_to(s, screen) ==
    [s EXCEPT !.current_screen = screen, !.error_message = None]

set_region(s, region) == [s EXCEPT !.selected_region = region]

set_player_name(s, name) == [s EXCEPT !.player_name = name]

set_loading(s, loading) == [s EXCEPT !.is_loading = loading]

set_error(s, message) == [s EXCEPT !.error_message = message]

clear_error(s) == [s EXCEPT !.error_message = None]

move_player_unclamped(s, dx, dy) ==
    [s EXCEPT !.player_x = clamp(s.player_x + dx, 0, s.world_width),
              !.player_y = s.player_y + dy]

move_player(s, dx, dy) ==
    [s EXCEPT !.player_x = clamp(s.player_x + dx, 0, s.world_width),
              !.player_y = clamp(s.player_y + dy, 0, s.world_height)]

reset_keeps_position(s) ==
    [s EXCEPT !.current_screen  = "GameHUD",
              !.selected_region = "EU",
              !.player_name     = "Player",
              !.is_loading      = FALSE,
              !.error_message   = None,
              !.ball_x          = s.world_width \div 2,
              !.ball_y          = s.world_height \div 2,
              !.ball_dx         = Fx(3),
              !.ball_dy         = Fx(2)]

reset(s) ==
    [s EXCEPT !.current_screen  = "GameHUD",
              !.selected_region = "EU",
              !.player_name     = "Player",
              !.is_loading      = FALSE,
              !.error_message   = None,
              !.player_x        = s.world_width \div 2,
              !.player_y        = s.world_height \div 2,
              !.ball_x          = s.world_width \div 2,
              !.ball_y          = s.world_height \div 2,
              !.ball_dx         = Fx(3),
              !.ball_dy         = Fx(2)]

\* The ball after "+=" and the two bounces, before the clamps
\* (game_state.rs:122-131).
ball_bounced(s) ==
    LET R  == Fx(GameState_BALL_RADIUS)
        s1 == [s EXCEPT !.ball_x = s.ball_x + s.ball_dx,
                        !.ball_y = s.ball_y + s.ball_dy]
        s2 == IF s1.ball_x <= R \/ s1.ball_x >= s1.world_width - R
              THEN [s1 EXCEPT !.ball_dx = -s1.ball_dx] ELSE s1
    IN  IF s2.ball_y <= R \/ s2.ball_y >= s2.world_height - R
        THEN [s2 EXCEPT !.ball_dy = -s2.ball_dy] ELSE s2

\* Whether one of the two clamps of update_ball_physics panics
\* (game_state.rs:134-139: min > max).
update_ball_physics_panics(s) ==
    LET R == Fx(GameState_BALL_RADIUS)
    IN  \/ clamp_panics(R, s.world_width - R)
        \/ clamp_panics(R, s.world_height - R)

update_ball_physics_damped(s) ==
    LET R  == Fx(GameState_BALL_RADIUS)
        s1 == [s EXCEPT !.ball_x = s.ball_x + s.ball_dx,
                        !.ball_y = s.ball_y + s.ball_dy]
        s2 == IF s1.ball_x <= R \/ s1.ball_x >= s1.world_width - R
              THEN [s1 EXCEPT !.ball_dx = -(s1.ball_dx \div 2)] ELSE s1
        s3 == IF s2.ball_y <= R \/ s2.ball_y >= s2.world_height - R
              THEN [s2 EXCEPT !.ball_dy = -s2.ball_dy] ELSE s2
    IN  IF clamp_panics(R, s3.world_width - R) THEN s3
        ELSE LET s4 == [s3 EXCEPT
                          !.ball_x = clamp(s3.ball_x, R, s3.world_width - R)]
             IN  IF clamp_panics(R, s4.world_height - R) THEN s4
                 ELSE [s4 EXCEPT
                         !.ball_y = clamp(s4.ball_y, R, s4.world_height - R)]

update_ball_physics_no_clamp(s) == ball_bounced(s)

update_ball_physics_strict(s) ==
    LET R  == Fx(GameState_BALL_RADIUS)
        s1 == [s EXCEPT !.ball_x = s.ball_x + s.ball_dx,
                        !.ball_y = s.ball_y + s.ball_dy]
        s2 == IF s1.ball_x < R \/ s1.ball_x > s1.world_width - R
              THEN [s1 EXCEPT !.ball_dx = -s1.ball_dx] ELSE s1
        s3 == IF s2.ball_y < R \/ s2.ball_y > s2.world_height - R
              THEN [s2 EXCEPT !.ball_dy = -s2.ball_dy] ELSE s2
    IN  IF clamp_panics(R, s3.world_width - R) THEN s3
        ELSE LET s4 == [s3 EXCEPT
                          !.ball_x = clamp(s3.ball_x, R, s3.world_width - R)]
             IN  IF clamp_panics(R, s4.world_height - R) THEN s4
                 ELSE [s4 EXCEPT
                         !.ball_y = clamp(s4.ball_y, R, s4.world_height - R)]

\* GameState::update_ball_physics: the state when the call returns, or,
\* when a clamp panics, the state at the panic (the fields written so far).
update_ball_physics(s) ==
    LET R  == Fx(GameState_BALL_RADIUS)
        s3 == ball_bounced(s)
    IN  IF clamp_panics(R, s3.world_width - R) THEN s3
        ELSE LET s4 == [s3 EXCEPT
                          !.ball_x = clamp(s3.ball_x, R, s3.world_width - R)]
             IN  IF clamp_panics(R, s4.world_height - R) THEN s4
                 ELSE [s4 EXCEPT
                         !.ball_y = clamp(s4.ball_y, R, s4.world_height - R)]

----------------------------------------------------------------------------
(* lib.rs : LegacyBallState *)

LegacyBallState_new(w, h) ==
    [ ball_x  |-> w \div 2,
      ball_y  |-> h \div 2,
      ball_dx |-> Fx(DEFAULT_BALL_SPEED_X),
      ball_dy |-> Fx(DEFAULT_BALL_SPEED_Y),
      width   |-> w,
      height  |-> h ]

LegacyBallState_update_panics(b) ==
    LET R == Fx(BALL_RADIUS)
    IN  \/ clamp_panics(R, b.width - R)
        \/ clamp_panics(R, b.height - R)

LegacyBallState_update_strict(b) ==
    LET R  == Fx(BALL_RADIUS)
        b1 == [b EXCEPT !.ball_x = b.ball_x + b.ball_dx,
                        !.ball_y = b.ball_y + b.ball_dy]
        b2 == IF b1.ball_x < R \/ b1.ball_x > b1.width - R
              THEN [b1 EXCEPT !.ball_dx = -b1.ball_dx] ELSE b1
        b3 == IF b2.ball_y < R \/ b2.ball_y > b2.height - R
              THEN [b2 EXCEPT !.ball_dy = -b2.ball_dy] ELSE b2
    IN  IF clamp_panics(R, b3.width - R) THEN b3
        ELSE LET b4 == [b3 EXCEPT
                          !.ball_x = clamp(b3.ball_x, R, b3.width - R)]
             IN  IF clamp_panics(R, b4.height - R) THEN b4
                 ELSE [b4 EXCEPT
                         !.ball_y = clamp(b4.ball_y, R, b4.height - R)]

LegacyBallState_update(b) ==
    LET R  == Fx(BALL_RADIUS)
        b1 == [b EXCEPT !.ball_x = b.ball_x + b.ball_dx,
                        !.ball_y = b.ball_y + b.ball_dy]
        b2 == IF b1.ball_x <= R \/ b1.ball_x >= b1.width - R
              THEN [b1 EXCEPT !.ball_dx = -b1.ball_dx] ELSE b1
        b3 == IF b2.ball_y <= R \/ b2.ball_y >= b2.height - R
              THEN [b2 EXCEPT !.ball_dy = -b2.ball_dy] ELSE b2
    IN  IF clamp_panics(R, b3.width - R) THEN b3
        ELSE LET b4 == [b3 EXCEPT
                          !.ball_x = clamp(b3.ball_x, R, b3.width - R)]
             IN  IF clamp_panics(R, b4.height - R) THEN b4
                 ELSE [b4 EXCEPT
                         !.ball_y = clamp(b4.ball_y, R, b4.height - R)]

LegacyBallState_set_velocity(b, dx, dy) ==
    [b EXCEPT !.ball_dx = dx, !.ball_dy = dy]

LegacyBallState_reset(b) ==
    [b EXCEPT !.ball_x  = b.width \div 2,
              !.ball_y  = b.height \div 2,
              !.ball_dx = Fx(DEFAULT_BALL_SPEED_X),
              !.ball_dy = Fx(DEFAULT_BALL_SPEED_Y)]

----------------------------------------------------------------------------
(* input.rs : InputHandler *)

InputHandler_new ==
    [ state |-> [ move_up       |-> FALSE,
                  move_down     |-> FALSE,
                  move_left     |-> FALSE,
                  move_right    |-> FALSE,
                  mouse_x       |-> 0,
                  mouse_y       |-> 0,
                  is_mouse_down |-> FALSE ],
      movement_speed |-> Fx(MOVEMENT_SPEED) ]

\* The key codes bound to a direction (input.rs:58-73).
MovementKeys ==
    {"KeyW", "ArrowUp", "KeyS", "ArrowDown", "KeyA", "ArrowLeft", "KeyD",
     "ArrowRight"}

\* An InputEvent: its variant and, for MouseClick and TouchTap, its x and y
\* (0 for the variants that carry none).  Event(None) is the None of an
\* Option<InputEvent>.
Event(tag) == [tag |-> tag, x |-> 0, y |-> 0]
PointerEvent(tag, x, y) == [tag |-> tag, x |-> x, y |-> y]

\* InputHandler::handle_key_down: the handler afterwards and the
\* Option<InputEvent> returned.
handle_key_down(h, key_code) ==
    CASE key_code \in {"KeyW", "ArrowUp"} ->
           [handler |-> [h EXCEPT !.state.move_up = TRUE],
            event |-> Event("MoveUp")]
      [] key_code \in {"KeyS", "ArrowDown"} ->
           [handler |-> [h EXCEPT !.state.move_down = TRUE],
            event |-> Event("MoveDown")]
      [] key_code \in {"KeyA", "ArrowLeft"} ->
           [handler |-> [h EXCEPT !.state.move_left = TRUE],
            event |-> Event("MoveLeft")]
      [] key_code \in {"KeyD", "ArrowRight"} ->
           [handler |-> [h EXCEPT !.state.move_right = TRUE],
            event |-> Event("MoveRight")]
      [] key_code = "KeyI" ->
           [handler |-> h, event |-> Event("ToggleInventory")]
      [] key_code = "KeyT" ->
           [handler |-> h, event |-> Event("ToggleShop")]
      [] key_code \in {"KeyH", "F1"} ->
           [handler |-> h, event |-> Event("ToggleHelp")]
      [] key_code = "Enter" ->
           [handler |-> h, event |-> Event("Enter")]
      [] key_code = "Escape" ->
           [handler |-> h, event |-> Event("Escape")]
      [] key_code = "Space" ->
           [handler |-> h, event |-> Event("MenuSelect")]
      [] OTHER ->
           [handler |-> h, event |-> Event(None)]

handle_key_up_ignored(h, key_code) == h

\* InputHandler::handle_key_up
handle_key_up(h, key_code) ==
    CASE key_code \in {"KeyW", "ArrowUp"} -> [h EXCEPT !.state.move_up = FALSE]
      [] key_code \in {"KeyS", "ArrowDown"} -> [h EXCEPT !.state.move_down = FALSE]
      [] key_code \in {"KeyA", "ArrowLeft"} -> [h EXCEPT !.state.move_left = FALSE]
      [] key_code \in {"KeyD", "ArrowRight"} -> [h EXCEPT !.state.move_right = FALSE]
      [] OTHER -> h

\* InputHandler::handle_mouse_click
handle_mouse_click(h, x, y) ==
    [handler |-> [h EXCEPT !.state.mouse_x = x, !.state.mouse_y = y],
     event |-> PointerEvent("MouseClick", x, y)]

\* InputHandler::handle_mouse_move
handle_mouse_move(h, x, y) ==
    [h EXCEPT !.state.mouse_x = x, !.state.mouse_y = y]

\* InputHandler::handle_mouse_down
handle_mouse_down(h, x, y) ==
    [h EXCEPT !.state.is_mouse_down = TRUE,
              !.state.mouse_x = x, !.state.mouse_y = y]

\* InputHandler::handle_mouse_up
handle_mouse_up(h, x, y) ==
    [h EXCEPT !.state.is_mouse_down = FALSE,
              !.state.mouse_x = x, !.state.mouse_y = y]

\* InputHandler::handle_touch
handle_touch(h, x, y) ==
    [handler |-> h, event |-> PointerEvent("TouchTap", x, y)]

get_movement_delta_exclusive(h) ==
    <<IF h.state.move_right THEN h.movement_speed
      ELSE IF h.state.move_left THEN -h.movement_speed ELSE 0,
      IF h.state.move_down THEN h.movement_speed
      ELSE IF h.state.move_up THEN -h.movement_speed ELSE 0>>

\* InputHandler::get_movement_delta
get_movement_delta(h) ==
    LET dx0 == 0
        dx1 == IF h.state.move_left THEN dx0 - h.movement_speed ELSE dx0
        dx2 == IF h.state.move_right THEN dx1 + h.movement_speed ELSE dx1
        dy0 == 0
        dy1 == IF h.state.move_up THEN dy0 - h.movement_speed ELSE dy0
        dy2 == IF h.state.move_down THEN dy1 + h.movement_speed ELSE dy1
    IN  <<dx2, dy2>>

\* InputHandler::set_movement_speed
set_movement_speed(h, speed) == [h EXCEPT !.movement_speed = speed]

\* InputHandler::is_moving
is_moving(h) ==
    h.state.move_up \/ h.state.move_down \/ h.state.move_left \/ h.state.move_right

----------------------------------------------------------------------------
(* lib.rs : Game.  lib.rs names seven screens (LoginScreen,               *)
(* ServerSelection, MainMenu, GameHUD, Inventory, Shop, HelpModal); the    *)
(* model keeps all seven.                                                  *)

Overlays == {"Inventory", "Shop", "HelpModal"}

Screens == {"LoginScreen", "ServerSelection", "MainMenu", "GameHUD"} \cup Overlays

Regions == {"EU", "Asia", "Vietnam"}

\* What process_input_event hands back: the GameState afterwards and the
\* bool returned.
Handled(s) == [state |-> s, ret |-> TRUE]

Unhandled_clears_error(s) == [state |-> clear_error(s), ret |-> FALSE]

Unhandled(s) == [state |-> s, ret |-> FALSE]

region_at_inclusive(y, hgt) ==
    IF 3 * y <= hgt THEN "EU"
    ELSE IF 3 * y <= 2 * hgt THEN "Asia"
    ELSE "Vietnam"

\* The region of a click or touch at height y in a window hgt high
\* (lib.rs:323-329 and 336-342): y < hgt / 3.0, y < 2.0 * hgt / 3.0.
region_at(y, hgt) ==
    IF 3 * y < hgt THEN "EU"
    ELSE IF 3 * y < 2 * hgt THEN "Asia"
    ELSE "Vietnam"

toggle_target_swapped(tag) ==
    CASE tag = "ToggleInventory" -> "Inventory"
      [] tag = "ToggleShop" -> "HelpModal"
      [] tag = "ToggleHelp" -> "Shop"

toggle_target_no_help(tag) ==
    CASE tag = "ToggleInventory" -> "Inventory"
      [] tag = "ToggleShop" -> "Shop"
      [] tag = "ToggleHelp" -> "Shop"

\* The screen a toggle event opens from GameHUD (lib.rs:363-374).
toggle_target(tag) ==
    CASE tag = "ToggleInventory" -> "Inventory"
      [] tag = "ToggleShop" -> "Shop"
      [] tag = "ToggleHelp" -> "HelpModal"

global_escape_to_login(s) ==
    IF s.current_screen = "LoginScreen" THEN [state |-> s, ret |-> FALSE]
    ELSE IF s.current_screen \in {"ServerSelection", "MainMenu"}
         THEN [state |-> transition_to(s, "LoginScreen"), ret |-> TRUE]
    ELSE IF s.current_screen = "GameHUD" THEN [state |-> s, ret |-> FALSE]
    ELSE [state |-> transition_to(s, "GameHUD"), ret |-> TRUE]

\* The arm "(_, InputEvent::Escape)" (lib.rs:393-410).
global_escape(s) ==
    IF s.current_screen = "LoginScreen" THEN Unhandled(s)
    ELSE IF s.current_screen = "ServerSelection"
         THEN Handled(transition_to(s, "LoginScreen"))
    ELSE IF s.current_screen = "MainMenu"
         THEN Handled(transition_to(s, "ServerSelection"))
    ELSE IF s.current_screen = "GameHUD" THEN Unhandled(s)
    ELSE Handled(transition_to(s, "GameHUD"))

default_region_always(s) == set_region(s, "EU")

\* The body of the arm "(ServerSelection, Enter)" before the transition
\* (lib.rs:315-317): EU when no region is selected.
default_region(s) ==
    IF s.selected_region = None THEN set_region(s, "EU") ELSE s

process_input_event_login_keeps_name(s, hgt, event) ==
    LET scr == s.current_screen
        tag == event.tag
    IN  IF scr = "LoginScreen" /\ tag \in {"Enter", "MouseClick", "TouchTap"}
        THEN Handled(transition_to(s, "ServerSelection"))
        ELSE IF scr = "ServerSelection" /\ tag = "Enter"
        THEN Handled(transition_to(default_region(s), "MainMenu"))
        ELSE IF scr = "ServerSelection" /\ tag \in {"MouseClick", "TouchTap"}
        THEN Handled(transition_to(set_region(s, region_at(event.y, hgt)),
                                   "MainMenu"))
        ELSE IF scr = "MainMenu" /\ tag \in {"Enter", "MouseClick", "TouchTap"}
        THEN Handled(transition_to(s, "GameHUD"))
        ELSE IF scr = "GameHUD"
                /\ tag \in {"ToggleInventory", "ToggleShop", "ToggleHelp"}
        THEN Handled(transition_to(s, toggle_target(tag)))
        ELSE IF scr \in Overlays /\ tag \in {"Escape", "MenuBack"}
        THEN Handled(transition_to(s, "GameHUD"))
        ELSE IF tag = "Escape"
        THEN global_escape(s)
        ELSE Unhandled(s)

process_input_event_toggle_anywhere(s, hgt, event) ==
    LET scr == s.current_screen
        tag == event.tag
    IN  IF scr = "LoginScreen" /\ tag \in {"Enter", "MouseClick", "TouchTap"}
        THEN Handled(transition_to(set_player_name(s, "Player"),
                                   "ServerSelection"))
        ELSE IF scr = "ServerSelection" /\ tag = "Enter"
        THEN Handled(transition_to(default_region(s), "MainMenu"))
        ELSE IF scr = "ServerSelection" /\ tag \in {"MouseClick", "TouchTap"}
        THEN Handled(transition_to(set_region(s, region_at(event.y, hgt)),
                                   "MainMenu"))
        ELSE IF scr = "MainMenu" /\ tag \in {"Enter", "MouseClick", "TouchTap"}
        THEN Handled(transition_to(s, "GameHUD"))
        ELSE IF tag \in {"ToggleInventory", "ToggleShop", "ToggleHelp"}
        THEN Handled(transition_to(s, toggle_target(tag)))
        ELSE IF scr \in Overlays /\ tag \in {"Escape", "MenuBack"}
        THEN Handled(transition_to(s, "GameHUD"))
        ELSE IF tag = "Escape"
        THEN global_escape(s)
        ELSE Unhandled(s)

\* Game::process_input_event: the arms in the order of the match.
process_input_event(s, hgt, event) ==
    LET scr == s.current_screen
        tag == event.tag
    IN  IF scr = "LoginScreen" /\ tag \in {"Enter", "MouseClick", "TouchTap"}
        THEN Handled(transition_to(set_player_name(s, "Player"),
                                   "ServerSelection"))
        ELSE IF scr = "ServerSelection" /\ tag = "Enter"
        THEN Handled(transition_to(default_region(s), "MainMenu"))
        ELSE IF scr = "ServerSelection" /\ tag \in {"MouseClick", "TouchTap"}
        THEN Handled(transition_to(set_region(s, region_at(event.y, hgt)),
                                   "MainMenu"))
        ELSE IF scr = "MainMenu" /\ tag \in {"Enter", "MouseClick", "TouchTap"}
        THEN Handled(transition_to(s, "GameHUD"))
        ELSE IF scr = "GameHUD"
                /\ tag \in {"ToggleInventory", "ToggleShop", "ToggleHelp"}
        THEN Handled(transition_to(s, toggle_target(tag)))
        ELSE IF scr \in Overlays /\ tag \in {"Escape", "MenuBack"}
        THEN Handled(transition_to(s, "GameHUD"))
        ELSE IF tag = "Escape"
        THEN global_escape(s)
        ELSE Unhandled(s)

parse_coords_lenient(data) ==
    [ok |-> TRUE,
     x |-> IF Len(data) >= 1 THEN data[1] ELSE 0,
     y |-> IF Len(data) >= 2 THEN data[2] ELSE 0]

\* serde_json::from_str::<(f64, f64)>(data) (lib.rs:166, 176).  A payload is
\* the sequence of numbers of a JSON array; it parses when it has exactly
\* two elements.
parse_coords(data) ==
    IF Len(data) = 2
    THEN [ok |-> TRUE, x |-> data[1], y |-> data[2]]
    ELSE [ok |-> FALSE, x |-> 0, y |-> 0]

\* Game::handle_input: the GameState and InputHandler afterwards, the
\* variant of the InputEvent that was processed (None when none was) and
\* the bool returned.
handle_input(s, ih, hgt, event_type, data) ==
    LET dropped == [state |-> s, input_handler |-> ih,
                    event |-> None, ret |-> FALSE]
    IN  IF event_type = "keydown"
        THEN LET k == handle_key_down(ih, data)
                 r == process_input_event(s, hgt, k.event)
             IN  IF k.event.tag # None
                 THEN [state |-> r.state, input_handler |-> k.handler,
                       event |-> k.event.tag, ret |-> r.ret]
                 ELSE [dropped EXCEPT !.input_handler = k.handler]
        ELSE IF event_type = "keyup"
        THEN [dropped EXCEPT !.input_handler = handle_key_up(ih, data)]
        ELSE IF event_type = "mouseclick"
        THEN LET c == parse_coords(data)
                 k == handle_mouse_click(ih, c.x, c.y)
                 r == process_input_event(s, hgt, k.event)
             IN  IF c.ok
                 THEN [state |-> r.state, input_handler |-> k.handler,
                       event |-> k.event.tag, ret |-> r.ret]
                 ELSE dropped
        ELSE IF event_type \in {"touch", "touchstart"}
        THEN LET c == parse_coords(data)
                 k == handle_touch(ih, c.x, c.y)
                 r == process_input_event(s, hgt, k.event)
             IN  IF c.ok
                 THEN [state |-> r.state, input_handler |-> k.handler,
                       event |-> k.event.tag, ret |-> r.ret]
                 ELSE dropped
        ELSE IF event_type = "touchend"
        THEN dropped
        ELSE dropped

Game_update_ball_everywhere(s, ih) ==
    LET d  == get_movement_delta(ih)
        s1 == IF d[1] # 0 \/ d[2] # 0 THEN move_player(s, d[1], d[2]) ELSE s
    IN  update_ball_physics(s1)

Game_update_gated(s, ih) ==
    LET d  == get_movement_delta(ih)
        s1 == IF (d[1] # 0 \/ d[2] # 0) /\ s.current_screen = "GameHUD"
              THEN move_player(s, d[1], d[2]) ELSE s
    IN  IF s1.current_screen = "GameHUD" THEN update_ball_physics(s1) ELSE s1

\* Game::update: the GameState when the call returns or, when the ball
\* update panics, at the panic.
Game_update(s, ih) ==
    LET d  == get_movement_delta(ih)
        s1 == IF d[1] # 0 \/ d[2] # 0 THEN move_player(s, d[1], d[2]) ELSE s
    IN  IF s1.current_screen = "GameHUD" THEN update_ball_physics(s1) ELSE s1

Game_update_panics(s) ==
    s.current_screen = "GameHUD" /\ update_ball_physics_panics(s)

Game_resize_reclamps(s, w, h) ==
    [s EXCEPT !.world_width = w, !.world_height = h,
              !.player_x = clamp(s.player_x, 0, w),
              !.player_y = clamp(s.player_y, 0, h)]

\* Game::resize, on the GameState (lib.rs:225-226).
Game_resize(s, w, h) == [s EXCEPT !.world_width = w, !.world_height = h]

Game_transition_to_screen_default(s, screen) ==
    IF screen \in Screens THEN transition_to(s, screen)
    ELSE transition_to(s, "GameHUD")

\* Game::transition_to_screen: an unknown name returns early.
Game_transition_to_screen(s, screen) ==
    IF screen \in Screens THEN transition_to(s, screen) ELSE s

\* Game::set_region: an unknown name returns early.
Game_set_region(s, region) ==
    IF region \in Regions THEN set_region(s, region) ELSE s

----------------------------------------------------------------------------
(* The record of the last call: the operation, the event type it was given *)
(* (handle_input only), the InputEvent it produced and the bool it         *)
(* returned (None and FALSE for the operations that have none).            *)

Called(op) == [op |-> op, event_type |-> None, event |-> None, ret |-> FALSE]

----------------------------------------------------------------------------
(* Construction: GameState::new / LegacyBallState::new / InputHandler::new *)
(* for a w x h world (whole units), as Game::new builds them.              *)

InitWorld(w, h) ==
    /\ state = GameState_new(Fx(w), Fx(h))
    /\ input_handler = InputHandler_new
    /\ width = Fx(w)
    /\ height = Fx(h)
    /\ legacy = LegacyBallState_new(Fx(w), Fx(h))
    /\ call = Called("new")
    /\ panicked = FALSE
    /\ keys_down = {}

----------------------------------------------------------------------------
(* Operations on a GameState / LegacyBallState alone, as the unit tests    *)
(* drive them.                                                             *)

\* GameState::move_player(dx, dy)
MovePlayer(dx, dy) ==
    /\ ~panicked
    /\ state' = move_player(state, dx, dy)
    /\ call' = Called("move_player")
    /\ UNCHANGED <<input_handler, width, height, legacy, panicked, keys_down>>

\* GameState::update_ball_physics()
UpdateBallPhysics ==
    /\ ~panicked
    /\ state' = update_ball_physics(state)
    /\ panicked' = update_ball_physics_panics(state)
    /\ call' = Called("update_ball_physics")
    /\ UNCHANGED <<input_handler, width, height, legacy, keys_down>>

\* Game::reset(), which is GameState::reset()
Reset ==
    /\ ~panicked
    /\ state' = reset(state)
    /\ call' = Called("reset")
    /\ UNCHANGED <<input_handler, width, height, legacy, panicked, keys_down>>

\* LegacyBallState::update()
LegacyUpdate ==
    /\ ~panicked
    /\ legacy' = LegacyBallState_update(legacy)
    /\ panicked' = LegacyBallState_update_panics(legacy)
    /\ call' = Called("legacy_update")
    /\ UNCHANGED <<state, input_handler, width, height, keys_down>>

\* LegacyBallState::reset()
LegacyReset ==
    /\ ~panicked
    /\ legacy' = LegacyBallState_reset(legacy)
    /\ call' = Called("legacy_reset")
    /\ UNCHANGED <<state, input_handler, width, height, panicked, keys_down>>

\* GameState::update_ball_physics() and LegacyBallState::update(), each
\* called once on its own object by one driver.
UpdateBoth ==
    /\ ~panicked
    /\ state' = update_ball_physics(state)
    /\ legacy' = LegacyBallState_update(legacy)
    /\ panicked' = (\/ update_ball_physics_panics(state)
                    \/ LegacyBallState_update_panics(legacy))
    /\ call' = Called("update_both")
    /\ UNCHANGED <<input_handler, width, height, keys_down>>

\* GameState::reset() and LegacyBallState::reset(), each called once on its
\* own object by one driver.
ResetBoth ==
    /\ ~panicked
    /\ state' = reset(state)
    /\ legacy' = LegacyBallState_reset(legacy)
    /\ call' = Called("reset_both")
    /\ UNCHANGED <<input_handler, width, height, panicked, keys_down>>

----------------------------------------------------------------------------
(* Operations on an InputHandler alone, as the unit tests of input.rs      *)
(* drive them.                                                             *)

InputCalled(op, tag) ==
    [op |-> op, event_type |-> None, event |-> tag, ret |-> FALSE]

\* InputHandler::handle_key_down(key_code)
KeyDown(key_code) ==
    LET k == handle_key_down(input_handler, key_code)
    IN  /\ ~panicked
        /\ input_handler' = k.handler
        /\ call' = InputCalled("handle_key_down", k.event.tag)
        /\ keys_down' = keys_down \cup ({key_code} \cap MovementKeys)
        /\ UNCHANGED <<state, width, height, legacy, panicked>>

\* InputHandler::handle_key_up(key_code)
KeyUp(key_code) ==
    /\ ~panicked
    /\ input_handler' = handle_key_up(input_handler, key_code)
    /\ call' = InputCalled("handle_key_up", None)
    /\ keys_down' = keys_down \ {key_code}
    /\ UNCHANGED <<state, width, height, legacy, panicked>>

\* InputHandler::handle_mouse_click(x, y)
MouseClick(x, y) ==
    LET k == handle_mouse_click(input_handler, x, y)
    IN  /\ ~panicked
        /\ input_handler' = k.handler
        /\ call' = InputCalled("handle_mouse_click", k.event.tag)
        /\ UNCHANGED <<state, width, height, legacy, panicked, keys_down>>

\* InputHandler::handle_mouse_move(x, y)
MouseMove(x, y) ==
    /\ ~panicked
    /\ input_handler' = handle_mouse_move(input_handler, x, y)
    /\ call' = InputCalled("handle_mouse_move", None)
    /\ UNCHANGED <<state, width, height, legacy, panicked, keys_down>>

\* InputHandler::handle_mouse_down(x, y)
MouseDown(x, y) ==
    /\ ~panicked
    /\ input_handler' = handle_mouse_down(input_handler, x, y)
    /\ call' = InputCalled("handle_mouse_down", None)
    /\ UNCHANGED <<state, width, height, legacy, panicked, keys_down>>

\* InputHandler::handle_mouse_up(x, y)
MouseUp(x, y) ==
    /\ ~panicked
    /\ input_handler' = handle_mouse_up(input_handler, x, y)
    /\ call' = InputCalled("handle_mouse_up", None)
    /\ UNCHANGED <<state, width, height, legacy, panicked, keys_down>>

\* InputHandler::handle_touch(x, y)
Touch(x, y) ==
    LET k == handle_touch(input_handler, x, y)
    IN  /\ ~panicked
        /\ input_handler' = k.handler
        /\ call' = InputCalled("handle_touch", k.event.tag)
        /\ UNCHANGED <<state, width, height, legacy, panicked, keys_down>>

\* InputHandler::set_movement_speed(speed)
SetMovementSpeed(speed) ==
    /\ ~panicked
    /\ input_handler' = set_movement_speed(input_handler, speed)
    /\ call' = InputCalled("set_movement_speed", None)
    /\ UNCHANGED <<state, width, height, legacy, panicked, keys_down>>

----------------------------------------------------------------------------
(* The operations of Game.  Once a panic has aborted the program nothing   *)
(* runs any more.                                                          *)

\* Game::handle_input(event_type, data)
HandleInput(event_type, data) ==
    LET r == handle_input(state, input_handler, height, event_type, data)
    IN  /\ ~panicked
        /\ state' = r.state
        /\ input_handler' = r.input_handler
        /\ call' = [op |-> "handle_input", event_type |-> event_type,
                    event |-> r.event, ret |-> r.ret]
        /\ keys_down' =
              IF event_type = "keydown" /\ data \in MovementKeys
              THEN keys_down \cup {data}
              ELSE IF event_type = "keyup" /\ data \in MovementKeys
              THEN keys_down \ {data}
              ELSE keys_down
        /\ UNCHANGED <<width, height, legacy, panicked>>

\* Game::update()
Update ==
    /\ ~panicked
    /\ state' = Game_update(state, input_handler)
    /\ panicked' = Game_update_panics(state)
    /\ call' = Called("update")
    /\ UNCHANGED <<input_handler, width, height, legacy, keys_down>>

\* Game::resize(width, height), in whole units (u32)
Resize(w, h) ==
    /\ ~panicked
    /\ width' = Fx(w)
    /\ height' = Fx(h)
    /\ state' = Game_resize(state, Fx(w), Fx(h))
    /\ call' = Called("resize")
    /\ UNCHANGED <<input_handler, legacy, panicked, keys_down>>

\* Game::transition_to_screen(screen)
TransitionToScreen(screen) ==
    /\ ~panicked
    /\ state' = Game_transition_to_screen(state, screen)
    /\ call' = Called("transition_to_screen")
    /\ UNCHANGED <<input_handler, width, height, legacy, panicked, keys_down>>

\* Game::set_player_name(name)
SetPlayerName(name) ==
    /\ ~panicked
    /\ state' = set_player_name(state, name)
    /\ call' = Called("set_player_name")
    /\ UNCHANGED <<input_handler, width, height, legacy, panicked, keys_down>>

\* Game::set_region(region)
SetRegion(region) ==
    /\ ~panicked
    /\ state' = Game_set_region(state, region)
    /\ call' = Called("set_region")
    /\ UNCHANGED <<input_handler, width, height, legacy, panicked, keys_down>>

\* GameState::set_loading(loading)
SetLoading(loading) ==
    /\ ~panicked
    /\ state' = set_loading(state, loading)
    /\ call' = Called("set_loading")
    /\ UNCHANGED <<input_handler, width, height, legacy, panicked, keys_down>>

\* GameState::set_error(message)
SetError(message) ==
    /\ ~panicked
    /\ state' = set_error(state, message)
    /\ call' = Called("set_error")
    /\ UNCHANGED <<input_handler, width, height, legacy, panicked, keys_down>>

\* GameState::clear_error()
ClearError ==
    /\ ~panicked
    /\ state' = clear_error(state)
    /\ call' = Called("clear_error")
    /\ UNCHANGED <<input_handler, width, height, legacy, panicked, keys_down>>

----------------------------------------------------------------------------
(* SpecMove: a GameState in a fixed world, moved by any deltas.            *)

InitMove == \E w \in MoveWorldSizes, h \in MoveWorldSizes : InitWorld(w, h)

NextMove == \E dx \in Deltas, dy \in Deltas : MovePlayer(dx, dy)

SpecMove == InitMove /\ [][NextMove]_vars

----------------------------------------------------------------------------
(* SpecBall: the two ball implementations in a fixed world.                *)

InitBall == \E w \in BallWorldSizes, h \in BallWorldSizes : InitWorld(w, h)

NextBall ==
    \/ UpdateBallPhysics
    \/ Reset
    \/ LegacyUpdate
    \/ LegacyReset

SpecBall == InitBall /\ [][NextBall]_vars

----------------------------------------------------------------------------
(* SpecScreen: the screen machine.  Every operation of Game except the     *)
(* frame update, and the setters of GameState, with inputs from small sets *)
(* that hold a malformed or unknown value of each kind.                    *)

ScreenWorlds == {<<60, 60>>, <<80, 50>>}
ScreenKeysDown ==
    {"KeyW", "KeyI", "KeyT", "KeyH", "F1", "Enter", "Escape", "Space", "KeyZ"}
ScreenKeysUp == {"KeyW", "KeyZ"}
ScreenTouches ==
    {<<Fx(7), Fx(10)>>, <<Fx(7), Fx(20)>>, <<Fx(7), Fx(45)>>, <<Fx(7)>>}
ScreenClicks == {<<Fx(7), Fx(20)>>, <<>>}
ScreenNames == Screens \cup {"Settings"}
RegionNames == Regions \cup {"Mars"}

InitScreen == \E wh \in ScreenWorlds : InitWorld(wh[1], wh[2])

NextScreen ==
    \/ \E k \in ScreenKeysDown : HandleInput("keydown", k)
    \/ \E k \in ScreenKeysUp : HandleInput("keyup", k)
    \/ \E d \in ScreenClicks : HandleInput("mouseclick", d)
    \/ \E d \in ScreenTouches : HandleInput("touch", d)
    \/ \E t \in {"touchstart", "touchend", "wheel"} :
          HandleInput(t, <<Fx(7), Fx(45)>>)
    \/ \E n \in ScreenNames : TransitionToScreen(n)
    \/ \E r \in RegionNames : SetRegion(r)
    \/ SetPlayerName("Hero")
    \/ SetError("boom")
    \/ ClearError
    \/ Reset
    \/ \E wh \in ScreenWorlds : Resize(wh[1], wh[2])

SpecScreen == InitScreen /\ [][NextScreen]_vars

----------------------------------------------------------------------------
(* SpecFrame: the frame loop.  Key events, frame updates, resizes and      *)
(* resets, in worlds that just hold the ball (2 * BALL_RADIUS) and in      *)
(* worlds too small for it.                                                *)

FrameWorlds == {<<50, 50>>, <<40, 40>>}
FrameKeys == {"KeyD", "ArrowLeft", "KeyS", "KeyI", "Escape"}

InitFrame == \E wh \in FrameWorlds : InitWorld(wh[1], wh[2])

NextFrame ==
    \/ \E k \in FrameKeys : HandleInput("keydown", k)
    \/ \E k \in FrameKeys : HandleInput("keyup", k)
    \/ Update
    \/ \E wh \in FrameWorlds : Resize(wh[1], wh[2])
    \/ Reset

SpecFrame == InitFrame /\ [][NextFrame]_vars

----------------------------------------------------------------------------
(* SpecReset: reset after every field it writes has been changed: the      *)
(* player and the ball have moved, the world has been resized, a screen    *)
(* has been opened and region, name, loading flag and error have been set. *)

ResetKeys == {"KeyD", "KeyT"}

InitReset == \E wh \in FrameWorlds : InitWorld(wh[1], wh[2])

NextReset ==
    \/ \E k \in ResetKeys : HandleInput("keydown", k)
    \/ Update
    \/ \E wh \in FrameWorlds : Resize(wh[1], wh[2])
    \/ SetRegion("Asia")
    \/ SetPlayerName("Hero")
    \/ SetLoading(TRUE)
    \/ SetError("boom")
    \/ Reset

SpecReset == InitReset /\ [][NextReset]_vars

----------------------------------------------------------------------------
(* SpecInput: an InputHandler alone.  Every movement key, a key that is    *)
(* bound to a toggle and one that is bound to nothing; pointer places      *)
(* outside any window and at a half unit; the default speed and its double.*)

InputKeys == MovementKeys \cup {"KeyI", "KeyZ"}
InputPlaces == {<<-Fx(3), Fx(900)>>, <<Fx(7) + 1, Fx(20)>>}
InputSpeeds == {Fx(MOVEMENT_SPEED), Fx(2 * MOVEMENT_SPEED)}

InitInput == InitWorld(2 * BALL_RADIUS, 2 * BALL_RADIUS)

NextInput ==
    \/ \E k \in InputKeys : KeyDown(k)
    \/ \E k \in InputKeys : KeyUp(k)
    \/ \E p \in InputPlaces : MouseClick(p[1], p[2])
    \/ \E p \in InputPlaces : MouseMove(p[1], p[2])
    \/ \E p \in InputPlaces : MouseDown(p[1], p[2])
    \/ \E p \in InputPlaces : MouseUp(p[1], p[2])
    \/ \E p \in InputPlaces : Touch(p[1], p[2])
    \/ \E v \in InputSpeeds : SetMovementSpeed(v)

SpecInput == InitInput /\ [][NextInput]_vars

----------------------------------------------------------------------------
(* SpecRegion: the region through the whole interface of Game: input       *)
(* events, transitions, setters, frame updates and resets, in the world    *)
(* that just holds the ball.                                               *)

RegionKeysDown == {"Enter", "Escape", "KeyD", "KeyI"}
RegionTouches == {<<Fx(7), Fx(10)>>, <<Fx(7), Fx(20)>>, <<Fx(7), Fx(45)>>}

InitRegion == InitWorld(2 * BALL_RADIUS, 2 * BALL_RADIUS)

NextRegion ==
    \/ \E k \in RegionKeysDown : HandleInput("keydown", k)
    \/ HandleInput("keyup", "KeyD")
    \/ HandleInput("mouseclick", <<Fx(7), Fx(20)>>)
    \/ \E d \in RegionTouches : HandleInput("touch", d)
    \/ \E n \in ScreenNames : TransitionToScreen(n)
    \/ \E r \in RegionNames : SetRegion(r)
    \/ SetPlayerName("Hero")
    \/ SetError("boom")
    \/ Update
    \/ Reset

SpecRegion == InitRegion /\ [][NextRegion]_vars

----------------------------------------------------------------------------
(* SpecSession: a session whose world is never resized, in a world that    *)
(* just holds the ball and in one of odd width with a little room: key     *)
(* events, frame updates, the setters and resets.                          *)

SessionWorlds == {<<50, 50>>, <<51, 52>>}
SessionKeys == {"KeyD", "KeyT"}

InitSession == \E wh \in SessionWorlds : InitWorld(wh[1], wh[2])

NextSession ==
    \/ \E k \in SessionKeys : HandleInput("keydown", k)
    \/ Update
    \/ SetRegion("Asia")
    \/ SetPlayerName("Hero")
    \/ SetLoading(TRUE)
    \/ SetError("boom")
    \/ Reset

SpecSession == InitSession /\ [][NextSession]_vars

----------------------------------------------------------------------------
(* SpecStep: the two ball implementations side by side.  A GameState and a *)
(* LegacyBallState are given the same world, ball position and velocity    *)
(* (their fields are public) and are then updated and reset together.  The *)
(* 800 x 600 world holds the two scenarios of the ball; the small worlds   *)
(* hold balls on, next to and beyond each wall, and one world is too       *)
(* narrow for the ball.                                                    *)

StepBalls ==
    {[w |-> 800, h |-> 600, x |-> 400, y |-> 300, dx |-> 3, dy |-> 2],
     [w |-> 800, h |-> 600, x |-> 24, y |-> 300, dx |-> -5, dy |-> 2]}
    \cup
    {[w |-> wh[1], h |-> wh[2], x |-> x, y |-> y, dx |-> dx, dy |-> dy] :
        wh \in {<<60, 56>>, <<40, 56>>},
        x \in {24, 25, 28, 30, 35, 36}, y \in {24, 25, 27, 29, 31, 32},
        dx \in {-5, -3, 0, 3, 5}, dy \in {-2, 2}}

InitStep ==
    \E b \in StepBalls :
       /\ state = [GameState_new(Fx(b.w), Fx(b.h)) EXCEPT
                     !.ball_x = Fx(b.x), !.ball_y = Fx(b.y),
                     !.ball_dx = Fx(b.dx), !.ball_dy = Fx(b.dy)]
       /\ legacy = [LegacyBallState_new(Fx(b.w), Fx(b.h)) EXCEPT
                      !.ball_x = Fx(b.x), !.ball_y = Fx(b.y),
                      !.ball_dx = Fx(b.dx), !.ball_dy = Fx(b.dy)]
       /\ input_handler = InputHandler_new
       /\ width = Fx(b.w)
       /\ height = Fx(b.h)
       /\ call = Called("new")
       /\ panicked = FALSE
       /\ keys_down = {}

NextStep ==
    \/ UpdateBoth
    \/ ResetBoth

SpecStep == InitStep /\ [][NextStep]_vars

----------------------------------------------------------------------------
(* Properties                                                              *)

PlayerInWorld(s) ==
    /\ 0 <= s.player_x /\ s.player_x <= s.world_width
    /\ 0 <= s.player_y /\ s.player_y <= s.world_height

\* p + d, or the bound of [0, max] nearest to it when it lies outside.
Saturated(p, d, max) ==
    IF p + d < 0 THEN 0 ELSE IF p + d > max THEN max ELSE p + d

BallInWorld(x, y, w, h, r) ==
    /\ r <= x /\ x <= w - r
    /\ r <= y /\ y <= h - r

Abs(v) == IF v < 0 THEN -v ELSE v

\* C1: in a fixed world (width, height >= 0) the player position stays in
\* [0, width] x [0, height] under every sequence of move_player calls with
\* any deltas, and each call leaves each coordinate at position + delta or,
\* when that lies outside the world, at the nearest bound.
C1_PlayerStaysInWorld ==
    /\ [](PlayerInWorld(state))
    /\ [][\A dx \in Deltas, dy \in Deltas :
            MovePlayer(dx, dy) =>
              /\ state'.player_x = Saturated(state.player_x, dx, state.world_width)
              /\ state'.player_y = Saturated(state.player_y, dy, state.world_height)
              /\ state'.world_width = state.world_width
              /\ state'.world_height = state.world_height]_vars

\* A move has saturated at the far bound on one axis and at 0 on the other.
C1_Witness ==
    /\ call.op = "move_player"
    /\ state.world_width > 0 /\ state.world_height > 0
    /\ state.player_x = state.world_width
    /\ state.player_y = 0

\* C3: in a world at least 2 * radius wide and high whose bounds do not
\* change, the ball of a new or reset state stays in
\* [radius, width - radius] x [radius, height - radius] after every update
\* (GameState::update_ball_physics and LegacyBallState::update alike).
C3_BallStaysInWorld ==
    /\ (/\ state.world_width >= Fx(2 * GameState_BALL_RADIUS)
        /\ state.world_height >= Fx(2 * GameState_BALL_RADIUS))
       => BallInWorld(state.ball_x, state.ball_y, state.world_width,
                      state.world_height, Fx(GameState_BALL_RADIUS))
    /\ (/\ legacy.width >= Fx(2 * BALL_RADIUS)
        /\ legacy.height >= Fx(2 * BALL_RADIUS))
       => BallInWorld(legacy.ball_x, legacy.ball_y, legacy.width,
                      legacy.height, Fx(BALL_RADIUS))

\* An update has just pulled an overshooting ball back to the right wall of
\* a world with room to move in.
C3_Witness ==
    /\ call.op = "update_ball_physics"
    /\ state.world_width > Fx(2 * GameState_BALL_RADIUS)
    /\ state.world_height > Fx(2 * GameState_BALL_RADIUS)
    /\ state.ball_x = state.world_width - Fx(GameState_BALL_RADIUS)
    /\ state.ball_dx < 0

\* C4: a ball update keeps each velocity component or changes its sign, so
\* |ball_dx|, |ball_dy| and dx*dx + dy*dy are what they were before it.
C4_SpeedPreserved ==
    [][/\ call'.op = "update_ball_physics" =>
            /\ state'.ball_dx \in {state.ball_dx, -state.ball_dx}
            /\ state'.ball_dy \in {state.ball_dy, -state.ball_dy}
            /\ Abs(state'.ball_dx) = Abs(state.ball_dx)
            /\ Abs(state'.ball_dy) = Abs(state.ball_dy)
            /\ state'.ball_dx * state'.ball_dx + state'.ball_dy * state'.ball_dy
                 = state.ball_dx * state.ball_dx + state.ball_dy * state.ball_dy
       /\ call'.op = "legacy_update" =>
            /\ legacy'.ball_dx \in {legacy.ball_dx, -legacy.ball_dx}
            /\ legacy'.ball_dy \in {legacy.ball_dy, -legacy.ball_dy}]_vars

\* An update has just reversed both components of the ball's velocity.
C4_Witness ==
    /\ call.op = "update_ball_physics"
    /\ ~panicked
    /\ state.ball_dx = -Fx(3)
    /\ state.ball_dy = -Fx(2)
    /\ state.ball_x = state.world_width - Fx(GameState_BALL_RADIUS)
    /\ state.ball_y = state.world_height - Fx(GameState_BALL_RADIUS)

\* The semantic events the properties probe process_input_event with: every
\* variant of InputEvent, the two pointer variants at every probed place.
ProbeCoords == (-2)..Fx(MaxProbe)
ProbeXs == {-2, Fx(7), Fx(MaxProbe)}
SimpleTags ==
    {"MoveUp", "MoveDown", "MoveLeft", "MoveRight", "MenuSelect", "MenuBack",
     "ToggleInventory", "ToggleShop", "ToggleHelp", "Escape", "Enter"}
PointerTags == {"MouseClick", "TouchTap"}
SimpleEvents == {Event(tag) : tag \in SimpleTags}
PointerEvents ==
    {PointerEvent(tag, x, y) : tag \in PointerTags, x \in ProbeXs, y \in ProbeCoords}
FewPointerEvents ==
    {PointerEvent(tag, Fx(7), y) : tag \in PointerTags, y \in {-2, Fx(20), Fx(MaxProbe)}}

\* C2 as stated: in every reachable state the player position lies inside
\* the current world bounds.
C2_PlayerAlwaysInWorld == PlayerInWorld(state)

\* C2 as amended: the player is inside the world after construction, no
\* operation that leaves the world bounds alone takes it outside, and every
\* reset and every frame update with a nonzero movement delta puts it inside
\* the current bounds (a resize does not move it).
C2_PlayerInWorldUnlessResized ==
    /\ PlayerInWorld(state)
    /\ [][/\ (/\ state'.world_width = state.world_width
              /\ state'.world_height = state.world_height
              /\ PlayerInWorld(state)) => PlayerInWorld(state')
          /\ call'.op = "reset" => PlayerInWorld(state')
          /\ (call'.op = "update"
              /\ get_movement_delta(input_handler) # <<0, 0>>)
               => PlayerInWorld(state')
          /\ call'.op = "resize" =>
               /\ state'.player_x = state.player_x
               /\ state'.player_y = state.player_y]_vars

\* After a resize to the smaller world a frame update has moved the player,
\* still held to the right and down, onto the new far corner.
C2_Witness ==
    /\ call.op = "update"
    /\ state.world_width = Fx(40) /\ state.world_height = Fx(40)
    /\ state.player_x = Fx(40) /\ state.player_y = Fx(40)
    /\ input_handler.state.move_right /\ input_handler.state.move_down

\* C5: every screen transition, by transition_to_screen with a known screen
\* name or by an input event that is reported handled, leaves error_message
\* None, whatever it was before.
C5_TransitionClearsError ==
    /\ [](\A e \in SimpleEvents \cup FewPointerEvents :
            LET r == process_input_event(state, height, e)
            IN  r.ret => r.state.error_message = None)
    /\ [][/\ \A n \in Screens :
               TransitionToScreen(n) => state'.error_message = None
          /\ (call'.op = "handle_input" /\ call'.ret)
               => state'.error_message = None]_vars

\* A handled input event has just opened the shop and no error is left.
C5_Witness ==
    /\ call.op = "handle_input" /\ call.ret
    /\ state.current_screen = "Shop"
    /\ state.error_message = None

\* C6: reset is idempotent and restores the defaults: screen GameHUD, region
\* EU, name "Player", not loading, no error, player and ball at the centre
\* of the current world, ball velocity (3, 2).
C6_ResetIdempotentDefaults ==
    LET r == reset(state)
        d == [ current_screen  |-> "GameHUD",
               selected_region |-> "EU",
               player_name     |-> "Player",
               is_loading      |-> FALSE,
               error_message   |-> None,
               player_x        |-> state.world_width \div 2,
               player_y        |-> state.world_height \div 2,
               world_width     |-> state.world_width,
               world_height    |-> state.world_height,
               ball_x          |-> state.world_width \div 2,
               ball_y          |-> state.world_height \div 2,
               ball_dx         |-> Fx(3),
               ball_dy         |-> Fx(2) ]
    IN  /\ reset(r) = r
        /\ r = d
        /\ 2 * d.player_x = state.world_width
        /\ 2 * d.player_y = state.world_height
        /\ call.op = "reset" => state = d

\* Reset has just run in the resized world, with the right key still held.
C6_Witness ==
    /\ call.op = "reset"
    /\ state.world_width = Fx(40)
    /\ state.player_x = Fx(20)
    /\ state.ball_x = Fx(20)
    /\ input_handler.state.move_right

\* C7: on GameHUD the events ToggleInventory, ToggleShop and ToggleHelp are
\* handled and open Inventory, Shop and HelpModal; on each of these three
\* Escape and MenuBack are handled and lead back to GameHUD.
C7_OverlayToggles ==
    /\ state.current_screen = "GameHUD" =>
         \A p \in {<<"ToggleInventory", "Inventory">>, <<"ToggleShop", "Shop">>,
                   <<"ToggleHelp", "HelpModal">>} :
            LET r == process_input_event(state, height, Event(p[1]))
            IN  r.ret /\ r.state.current_screen = p[2]
    /\ state.current_screen \in {"Inventory", "Shop", "HelpModal"} =>
         \A tag \in {"Escape", "MenuBack"} :
            LET r == process_input_event(state, height, Event(tag))
            IN  r.ret /\ r.state.current_screen = "GameHUD"
    /\ (call.op = "handle_input" /\ call.event = "ToggleShop" /\ call.ret)
         => state.current_screen = "Shop"
    /\ (call.op = "handle_input" /\ call.event = "ToggleHelp" /\ call.ret)
         => state.current_screen = "HelpModal"
    /\ (call.op = "handle_input" /\ call.event = "ToggleInventory" /\ call.ret)
         => state.current_screen = "Inventory"

\* The key bound to ToggleHelp has just opened the help modal.
C7_Witness ==
    /\ call.op = "handle_input" /\ call.event = "ToggleHelp" /\ call.ret
    /\ state.current_screen = "HelpModal"

\* The rules of the transition table: the events that have a rule on a screen.
HasRule(screen, tag) ==
    \/ screen = "LoginScreen" /\ tag \in {"Enter", "MouseClick", "TouchTap"}
    \/ screen = "ServerSelection"
         /\ tag \in {"Enter", "MouseClick", "TouchTap", "Escape"}
    \/ screen = "MainMenu" /\ tag \in {"Enter", "MouseClick", "TouchTap", "Escape"}
    \/ screen = "GameHUD" /\ tag \in {"ToggleInventory", "ToggleShop", "ToggleHelp"}
    \/ screen \in {"Inventory", "Shop", "HelpModal"} /\ tag \in {"Escape", "MenuBack"}

\* C8: an event that matches no rule of the current screen is reported
\* unhandled and leaves the whole GameState as it was.
C8_UnhandledChangesNothing ==
    /\ [](\A e \in SimpleEvents \cup FewPointerEvents :
            ~HasRule(state.current_screen, e.tag) =>
              LET r == process_input_event(state, height, e)
              IN  r.ret = FALSE /\ r.state = state)
    /\ [][(call'.op = "handle_input" /\ ~call'.ret) => state' = state]_vars

\* Enter on Inventory has just been reported unhandled, and the error that
\* was set is still there.
C8_Witness ==
    /\ call.op = "handle_input" /\ call.event = "Enter" /\ ~call.ret
    /\ state.current_screen = "Inventory"
    /\ state.error_message = "boom"

\* C9: Escape is unhandled on LoginScreen and on GameHUD and leaves the
\* screen; it leads from ServerSelection to LoginScreen, from MainMenu to
\* ServerSelection and from every overlay to GameHUD.
C9_EscapeTable ==
    LET r == process_input_event(state, height, Event("Escape"))
        s == state.current_screen
    IN  /\ s = "LoginScreen" => ~r.ret /\ r.state.current_screen = "LoginScreen"
        /\ s = "ServerSelection" => r.ret /\ r.state.current_screen = "LoginScreen"
        /\ s = "MainMenu" => r.ret /\ r.state.current_screen = "ServerSelection"
        /\ s = "GameHUD" => ~r.ret /\ r.state.current_screen = "GameHUD"
        /\ s \in {"Inventory", "Shop", "HelpModal"}
             => r.ret /\ r.state.current_screen = "GameHUD"
        /\ (call.op = "handle_input" /\ call.event = "Escape" /\ ~call.ret)
             => s \in {"LoginScreen", "GameHUD"}

\* The Escape key has just led from MainMenu back to ServerSelection.
C9_Witness ==
    /\ call.op = "handle_input" /\ call.event = "Escape" /\ call.ret
    /\ state.current_screen = "ServerSelection"

\* The region the table gives a click or touch at height y in a world h
\* high: EU when y < h/3, Asia when h/3 <= y < 2h/3, Vietnam otherwise.
TableRegion(y, h) ==
    IF 3 * y < h THEN "EU" ELSE IF 3 * y < 2 * h THEN "Asia" ELSE "Vietnam"

\* C10: on ServerSelection a click or touch at (x, y) is handled, sets the
\* region by the third of the current world height that y lies in,
\* whatever region was chosen before, and leads to MainMenu.
C10_RegionByThirds ==
    /\ state.current_screen = "ServerSelection" =>
         \A e \in PointerEvents :
            LET r == process_input_event(state, height, e)
            IN  /\ r.ret
                /\ r.state.selected_region = TableRegion(e.y, state.world_height)
                /\ r.state.current_screen = "MainMenu"
    /\ (/\ call.op = "handle_input" /\ call.event = "MouseClick" /\ call.ret
        /\ state.current_screen = "MainMenu")
         => state.selected_region
              = TableRegion(input_handler.state.mouse_y, state.world_height)

\* A click at exactly a third of the height of the 60-high world has just
\* chosen Asia and opened MainMenu.
C10_Witness ==
    /\ call.op = "handle_input" /\ call.event = "MouseClick" /\ call.ret
    /\ state.current_screen = "MainMenu"
    /\ state.world_height = Fx(60)
    /\ input_handler.state.mouse_y = Fx(20)
    /\ state.selected_region = "Asia"

\* C11: on ServerSelection, Enter is handled and leads to MainMenu; the
\* region becomes EU when none was selected and stays what it was when one
\* was (the first conjunct applies the rule to the state with each value the
\* field can hold, None included).
C11_EnterKeepsChosenRegion ==
    /\ [](state.current_screen = "ServerSelection" =>
            \A reg \in Regions \cup {None} :
               LET s == [state EXCEPT !.selected_region = reg]
                   r == process_input_event(s, height, Event("Enter"))
               IN  /\ r.ret
                   /\ r.state.current_screen = "MainMenu"
                   /\ r.state.selected_region = IF reg = None THEN "EU" ELSE reg)
    /\ [][(/\ call'.op = "handle_input" /\ call'.event = "Enter"
           /\ state.current_screen = "ServerSelection")
            => /\ call'.ret
               /\ state'.current_screen = "MainMenu"
               /\ state'.selected_region =
                    IF state.selected_region = None THEN "EU"
                    ELSE state.selected_region]_vars

\* Enter has just led to MainMenu (which Enter reaches from ServerSelection
\* only) and the region chosen before, Vietnam, is still selected.
C11_Witness ==
    /\ call.op = "handle_input" /\ call.event = "Enter" /\ call.ret
    /\ state.current_screen = "MainMenu"
    /\ state.selected_region = "Vietnam"

\* C12: on LoginScreen each of Enter, MouseClick and TouchTap is handled,
\* sets the player name to "Player" and leads to ServerSelection; on
\* MainMenu each of them is handled and leads to GameHUD, changing nothing
\* else but error_message, which becomes None.
C12_LoginAndMainMenu ==
    /\ [](\A e \in {Event("Enter")} \cup FewPointerEvents :
            LET r == process_input_event(state, height, e)
            IN  /\ state.current_screen = "LoginScreen" =>
                     /\ r.ret
                     /\ r.state.player_name = "Player"
                     /\ r.state.current_screen = "ServerSelection"
                /\ state.current_screen = "MainMenu" =>
                     /\ r.ret
                     /\ r.state = [state EXCEPT !.current_screen = "GameHUD",
                                                !.error_message = None])
    /\ [][(/\ call'.op = "handle_input"
           /\ call'.event \in {"Enter", "MouseClick", "TouchTap"})
            => /\ state.current_screen = "LoginScreen" =>
                    /\ call'.ret
                    /\ state'.player_name = "Player"
                    /\ state'.current_screen = "ServerSelection"
               /\ state.current_screen = "MainMenu" =>
                    /\ call'.ret
                    /\ state' = [state EXCEPT !.current_screen = "GameHUD",
                                              !.error_message = None]]_vars

\* A touch has just led to ServerSelection (which a touch reaches from
\* LoginScreen only) and the name is the default one.
C12_Witness ==
    /\ call.op = "handle_input" /\ call.event = "TouchTap" /\ call.ret
    /\ state.current_screen = "ServerSelection"
    /\ state.player_name = "Player"

\* A change of screen from before to after that enters an overlay only from
\* GameHUD and leaves an overlay only to GameHUD.
OverlayDiscipline(before, after) ==
    before # after =>
       /\ after \in Overlays => before = "GameHUD"
       /\ before \in Overlays => after = "GameHUD"

\* C13 as stated: every handle_input, transition_to_screen and reset that
\* changes the screen enters an overlay only from GameHUD and leaves an
\* overlay only to GameHUD.
C13_OverlaysOnlyViaHUD ==
    [][call'.op \in {"handle_input", "transition_to_screen", "reset"}
         => OverlayDiscipline(state.current_screen,
                              state'.current_screen)]_vars

\* C13 as amended: every input event and every reset that changes the
\* screen enters an overlay only from GameHUD and leaves an overlay only to
\* GameHUD; transition_to_screen with a known name leads to the named
\* screen from every screen.
C13_OverlaysViaHUDByInput ==
    /\ [](\A e \in SimpleEvents \cup FewPointerEvents :
            OverlayDiscipline(
                state.current_screen,
                process_input_event(state, height, e).state.current_screen))
    /\ [][/\ call'.op \in {"handle_input", "reset"}
               => OverlayDiscipline(state.current_screen,
                                    state'.current_screen)
          /\ \A n \in Screens :
               TransitionToScreen(n) => state'.current_screen = n]_vars

\* Escape has just been handled and led to GameHUD, which it does from an
\* overlay only.
C13_Witness ==
    /\ call.op = "handle_input" /\ call.event = "Escape" /\ call.ret
    /\ state.current_screen = "GameHUD"

PastServerSelect == {"MainMenu", "GameHUD"} \cup Overlays

\* C14: in every reachable state whose screen is MainMenu, GameHUD,
\* Inventory, Shop or HelpModal the selected region is Some, whatever input
\* events, transition_to_screen calls, setters and resets led there.
C14_RegionSetPastServerSelect ==
    state.current_screen \in PastServerSelect
      => state.selected_region \in Regions

\* transition_to_screen has just opened MainMenu without passing through
\* ServerSelection, and a region is selected.
C14_Witness ==
    /\ call.op = "transition_to_screen"
    /\ state.current_screen = "MainMenu"
    /\ state.selected_region \in Regions
    /\ state.player_name = "Hero"

\* C15: the selected region changes only by set_region with a known name, by
\* a click or touch on ServerSelection, by Enter on ServerSelection when no
\* region is selected, or by reset (which selects EU); every other
\* operation, every transition and every frame update included, leaves it
\* as it was, and it never becomes None again.
C15_RegionPersists ==
    [][/\ state'.selected_region # state.selected_region =>
            \/ call'.op = "set_region" /\ state'.selected_region \in Regions
            \/ call'.op = "reset" /\ state'.selected_region = "EU"
            \/ /\ call'.op = "handle_input"
               /\ state.current_screen = "ServerSelection"
               /\ \/ call'.event \in {"MouseClick", "TouchTap"}
                  \/ call'.event = "Enter" /\ state.selected_region = None
       /\ \A r \in RegionNames \ Regions :
            SetRegion(r) => state'.selected_region = state.selected_region
       /\ call'.op \in {"update", "transition_to_screen", "set_player_name",
                        "set_error"}
            => state'.selected_region = state.selected_region
       /\ state.selected_region # None => state'.selected_region # None]_vars

\* A frame update has just run on GameHUD with Vietnam, chosen earlier on
\* ServerSelection or by set_region, still selected.
C15_Witness ==
    /\ call.op = "update"
    /\ state.current_screen = "GameHUD"
    /\ state.selected_region = "Vietnam"

\* C16: transition_to_screen with an unknown screen name and set_region with
\* an unknown region name leave the whole GameState, screen, region and
\* error message included, exactly as it was.
C16_UnknownNamesIgnored ==
    /\ [](/\ \A n \in ScreenNames \ Screens :
               Game_transition_to_screen(state, n) = state
          /\ \A r \in RegionNames \ Regions :
               Game_set_region(state, r) = state)
    /\ [][/\ \A n \in ScreenNames \ Screens :
               TransitionToScreen(n) => state' = state
          /\ \A r \in RegionNames \ Regions :
               SetRegion(r) => state' = state]_vars

\* transition_to_screen has just returned on Inventory with the error still
\* set, which a known name would have cleared.
C16_Witness ==
    /\ call.op = "transition_to_screen"
    /\ state.current_screen = "Inventory"
    /\ state.error_message = "boom"

\* C17: handle_input with an unknown event type, with a keydown of a key
\* bound to nothing, or with a click or touch whose payload is not a pair of
\* numbers returns false and changes neither the GameState nor the
\* InputHandler.
C17_BadInputDropped ==
    /\ [](/\ \A bad \in {<<Fx(7)>>, <<>>}, t \in {"mouseclick", "touch", "touchstart"} :
               LET r == handle_input(state, input_handler, height, t, bad)
               IN  ~r.ret /\ r.state = state /\ r.input_handler = input_handler
          /\ LET r == handle_input(state, input_handler, height, "keydown", "KeyZ")
             IN  ~r.ret /\ r.state = state /\ r.input_handler = input_handler
          /\ LET r == handle_input(state, input_handler, height, "wheel",
                                   <<Fx(7), Fx(45)>>)
             IN  ~r.ret /\ r.state = state /\ r.input_handler = input_handler)
    /\ [][(\/ HandleInput("wheel", <<Fx(7), Fx(45)>>)
           \/ HandleInput("keydown", "KeyZ")
           \/ HandleInput("mouseclick", <<>>)
           \/ HandleInput("touch", <<Fx(7)>>))
            => /\ ~call'.ret
               /\ state' = state
               /\ input_handler' = input_handler]_vars

\* A touch with a malformed payload has just been dropped on LoginScreen,
\* where a touch is handled: the screen, the error, the held flag and the
\* last click place are what they were.
C17_Witness ==
    /\ call.op = "handle_input" /\ call.event_type = "touch"
    /\ call.event = None /\ ~call.ret
    /\ state.current_screen = "LoginScreen"
    /\ state.error_message = "boom"
    /\ input_handler.state.move_up
    /\ input_handler.state.mouse_y = Fx(20)

\* A held flag counted as 0 or 1.
Held(flag) == IF flag THEN 1 ELSE 0

\* C18: after any sequence of key-down and key-up events the movement delta
\* is (speed * (right - left), speed * (down - up)) over the held flags, so
\* a diagonal is the sum of its two axes and opposite directions cancel, and
\* is_moving is true exactly when a flag is held; on a handler that holds
\* nothing, key-down KeyW gives is_moving and delta (0, -speed), and key-up
\* KeyW, with nothing but up held, then gives not is_moving and delta (0, 0).
C18_MovementDelta ==
    /\ [](LET st == input_handler.state
              v  == input_handler.movement_speed
          IN  /\ get_movement_delta(input_handler)
                   = <<v * (Held(st.move_right) - Held(st.move_left)),
                       v * (Held(st.move_down) - Held(st.move_up))>>
              /\ is_moving(input_handler)
                   = (Held(st.move_up) + Held(st.move_down)
                        + Held(st.move_left) + Held(st.move_right) >= 1))
    /\ [][/\ (KeyDown("KeyW") /\ ~is_moving(input_handler))
               => /\ is_moving(input_handler')
                  /\ get_movement_delta(input_handler')
                       = <<0, -input_handler.movement_speed>>
          /\ (/\ KeyUp("KeyW")
              /\ input_handler.state.move_up
              /\ ~input_handler.state.move_down
              /\ ~input_handler.state.move_left
              /\ ~input_handler.state.move_right)
               => /\ ~is_moving(input_handler')
                  /\ get_movement_delta(input_handler') = <<0, 0>>]_vars

\* After a key-up, left and right are both held and cancel, down is held,
\* and the speed has been doubled: the delta is (0, 10).
C18_Witness ==
    /\ call.op = "handle_key_up"
    /\ input_handler.state.move_left /\ input_handler.state.move_right
    /\ input_handler.state.move_down /\ ~input_handler.state.move_up
    /\ input_handler.movement_speed = Fx(2 * MOVEMENT_SPEED)
    /\ get_movement_delta(input_handler) = <<0, Fx(2 * MOVEMENT_SPEED)>>

\* C19: every pointer and touch handler (mouse down, move, up, click,
\* touch) records its (x, y) as the last coordinates of the InputState, and
\* click and touch return an event that carries exactly (x, y).
C19_PointerHandlersRecord ==
    [][\A p \in InputPlaces :
         /\ (\/ MouseClick(p[1], p[2]) \/ MouseMove(p[1], p[2])
             \/ MouseDown(p[1], p[2]) \/ MouseUp(p[1], p[2])
             \/ Touch(p[1], p[2]))
              => /\ input_handler'.state.mouse_x = p[1]
                 /\ input_handler'.state.mouse_y = p[2]
         /\ MouseClick(p[1], p[2])
              => handle_mouse_click(input_handler, p[1], p[2]).event
                   = PointerEvent("MouseClick", p[1], p[2])
         /\ Touch(p[1], p[2])
              => handle_touch(input_handler, p[1], p[2]).event
                   = PointerEvent("TouchTap", p[1], p[2])]_vars

\* The field of the InputState that a movement key stands for.
FlagOf(key_code) ==
    CASE key_code \in {"KeyW", "ArrowUp"} -> "move_up"
      [] key_code \in {"KeyS", "ArrowDown"} -> "move_down"
      [] key_code \in {"KeyA", "ArrowLeft"} -> "move_left"
      [] key_code \in {"KeyD", "ArrowRight"} -> "move_right"

\* C20: a keydown or keyup of a movement key sets or clears its held flag
\* and nothing else of the InputHandler, is reported unhandled on every
\* screen and leaves the GameState as it was; the player moves at the next
\* frame update only.
C20_MovementKeysTouchOnlyInput ==
    /\ [](\A k \in MovementKeys :
            LET d == handle_input(state, input_handler, height, "keydown", k)
                u == handle_input(state, input_handler, height, "keyup", k)
            IN  /\ ~d.ret /\ d.state = state
                /\ d.input_handler
                     = [input_handler EXCEPT !.state[FlagOf(k)] = TRUE]
                /\ ~u.ret /\ u.state = state
                /\ u.input_handler
                     = [input_handler EXCEPT !.state[FlagOf(k)] = FALSE])
    /\ [][/\ HandleInput("keydown", "KeyD")
               => /\ ~call'.ret /\ state' = state
                  /\ input_handler'.state.move_right
          /\ HandleInput("keyup", "KeyD")
               => /\ ~call'.ret /\ state' = state
                  /\ ~input_handler'.state.move_right
          /\ (/\ call'.op = "update" /\ input_handler.state.move_right
              /\ state.player_x < state.world_width)
               => state'.player_x > state.player_x]_vars

\* The key-down of KeyD has just been reported unhandled on MainMenu: the
\* flag is held, and screen, error and player position are what they were.
C20_Witness ==
    /\ call.op = "handle_input" /\ call.event = "MoveRight" /\ ~call.ret
    /\ input_handler.state.move_right
    /\ state.current_screen = "MainMenu"
    /\ state.error_message = "boom"
    /\ state.player_x = state.world_width \div 2

\* Every combination of the four held flags.
FlagSets ==
    [move_up : BOOLEAN, move_down : BOOLEAN, move_left : BOOLEAN,
     move_right : BOOLEAN]

WithFlags(h, f) ==
    [h EXCEPT !.state.move_up = f.move_up, !.state.move_down = f.move_down,
              !.state.move_left = f.move_left,
              !.state.move_right = f.move_right]

\* The player coordinate after a frame update with delta d on that axis,
\* when the delta of the frame is nonzero or not.
Moved(p, d, max, nonzero) == IF nonzero THEN Saturated(p, d, max) ELSE p

C22_NoFatalError ==
    /\ ~panicked
    /\ (call.op = "update" /\ state.current_screen = "GameHUD")
         => /\ Fx(GameState_BALL_RADIUS) <= state.world_width - Fx(GameState_BALL_RADIUS)
            /\ Fx(GameState_BALL_RADIUS) <= state.world_height - Fx(GameState_BALL_RADIUS)

\* C23: after reset the four held flags are false, so is_moving is false
\* and the movement delta is (0, 0), and the pointer-down flag is false,
\* also when movement keys were held when reset was called.
C23_ResetClearsInput ==
    call.op = "reset" =>
       /\ ~input_handler.state.move_up /\ ~input_handler.state.move_down
       /\ ~input_handler.state.move_left /\ ~input_handler.state.move_right
       /\ ~is_moving(input_handler)
       /\ get_movement_delta(input_handler) = <<0, 0>>
       /\ ~input_handler.state.is_mouse_down

\* The initial session for a world w wide and h high (in half units).
InitialSession(w, h) ==
    [ current_screen  |-> "GameHUD",
      selected_region |-> "EU",
      player_name     |-> "Player",
      is_loading      |-> FALSE,
      error_message   |-> None,
      player_x        |-> w \div 2,
      player_y        |-> h \div 2,
      world_width     |-> w,
      world_height    |-> h,
      ball_x          |-> w \div 2,
      ball_y          |-> h \div 2,
      ball_dx         |-> Fx(3),
      ball_dy         |-> Fx(2) ]

AxisStep(pos, v, dim, r) ==
    LET p   == pos + v
        hit == p <= r \/ p >= dim - r
    IN  [v   |-> IF hit THEN -v ELSE v,
         pos |-> IF p < r THEN r ELSE IF p > dim - r THEN dim - r ELSE p]

\* C25: one ball update, of a GameState and of a LegacyBallState alike,
\* computes each axis on its own as AxisStep; in the 800 x 600 world a ball
\* at (400, 300) with velocity (3, 2) moves to (403, 302) and keeps its
\* velocity, and a ball at (24, 300) with dx = -5 ends with dx = 5 and
\* x = 25.
C25_BallStepPerAxis ==
    [][(call'.op = "update_both" /\ ~panicked') =>
         LET R == Fx(GameState_BALL_RADIUS)
             x == AxisStep(state.ball_x, state.ball_dx, state.world_width, R)
             y == AxisStep(state.ball_y, state.ball_dy, state.world_height, R)
             lx == AxisStep(legacy.ball_x, legacy.ball_dx, legacy.width,
                            Fx(BALL_RADIUS))
             ly == AxisStep(legacy.ball_y, legacy.ball_dy, legacy.height,
                            Fx(BALL_RADIUS))
         IN  /\ state'.ball_x = x.pos /\ state'.ball_dx = x.v
             /\ state'.ball_y = y.pos /\ state'.ball_dy = y.v
             /\ legacy'.ball_x = lx.pos /\ legacy'.ball_dx = lx.v
             /\ legacy'.ball_y = ly.pos /\ legacy'.ball_dy = ly.v
             /\ (/\ state.world_width = Fx(800) /\ state.world_height = Fx(600)
                 /\ state.ball_x = Fx(400) /\ state.ball_y = Fx(300)
                 /\ state.ball_dx = Fx(3) /\ state.ball_dy = Fx(2))
                  => /\ state'.ball_x = Fx(403) /\ state'.ball_y = Fx(302)
                     /\ state'.ball_dx = Fx(3) /\ state'.ball_dy = Fx(2)
             /\ (/\ state.world_width = Fx(800) /\ state.world_height = Fx(600)
                 /\ state.ball_x = Fx(24) /\ state.ball_y = Fx(300)
                 /\ state.ball_dx = -Fx(5))
                  => /\ state'.ball_x = Fx(25)
                     /\ state'.ball_dx = Fx(5)]_vars

\* The first update of the ball that started at (24, 300) with dx = -5 in
\* the 800 x 600 world has just run: it is at (25, 302) and dx is 5.
C25_Witness ==
    /\ call.op = "update_both"
    /\ state.world_width = Fx(800)
    /\ state.ball_x = Fx(25) /\ state.ball_y = Fx(302)
    /\ state.ball_dx = Fx(5) /\ state.ball_dy = Fx(2)

\* C30: a LegacyBallState and a GameState that start with the same world,
\* ball position and velocity have the same ball position and velocity
\* after every update and after every reset, and an update of the one
\* panics exactly when the update of the other does.
C30_LegacyBallEquivalent ==
    /\ update_ball_physics_panics(state) = LegacyBallState_update_panics(legacy)
    /\ state.world_width = legacy.width /\ state.world_height = legacy.height
    /\ ~panicked =>
         /\ state.ball_x = legacy.ball_x /\ state.ball_y = legacy.ball_y
         /\ state.ball_dx = legacy.ball_dx /\ state.ball_dy = legacy.ball_dy

\* An update has just stopped both balls on the right wall of the 60 wide
\* world and turned both back.
C30_Witness ==
    /\ call.op = "update_both" /\ ~panicked
    /\ legacy.width = Fx(60)
    /\ legacy.ball_x = Fx(35) /\ legacy.ball_dx < 0
    /\ state.ball_x = Fx(35) /\ state.ball_dx < 0

\* C26: resize changes the stored world bounds and nothing else (player,
\* ball, screen, region, name, loading flag and error stay as they were),
\* and the clamps of later frame updates use the new bounds.
C26_ResizeChangesOnlyBounds ==
    /\ [](state.world_width = width /\ state.world_height = height)
    /\ [][/\ \A wh \in FrameWorlds :
               Resize(wh[1], wh[2]) =>
                  /\ state' = [state EXCEPT !.world_width = Fx(wh[1]),
                                            !.world_height = Fx(wh[2])]
                  /\ width' = Fx(wh[1]) /\ height' = Fx(wh[2])
                  /\ input_handler' = input_handler
          /\ (call'.op = "update"
              /\ get_movement_delta(input_handler) # <<0, 0>>)
               => LET d == get_movement_delta(input_handler)
                  IN  /\ state'.player_x = Saturated(state.player_x, d[1], width)
                      /\ state'.player_y = Saturated(state.player_y, d[2], height)
          /\ (call'.op = "update" /\ state.current_screen = "GameHUD"
              /\ ~panicked')
               => BallInWorld(state'.ball_x, state'.ball_y, width, height,
                              Fx(GameState_BALL_RADIUS))]_vars

\* Resize to the smaller world has just run: the player, moved to the far
\* corner of the larger world before, is where it was, outside the new
\* bounds, and the ball is where it was.
C26_Witness ==
    /\ call.op = "resize"
    /\ state.world_width = Fx(40) /\ state.world_height = Fx(40)
    /\ state.player_x = Fx(50) /\ state.player_y = Fx(50)
    /\ state.ball_x = Fx(25)

\* The semantic events that input can produce: the events of the bound keys
\* (every variant but MenuBack, which no key is bound to), clicks and
\* touches.
ProducedEvents ==
    {Event(tag) : tag \in SimpleTags \ {"MenuBack"}} \cup FewPointerEvents

\* The states that one handled event leads to from s.
HandledSuccessors(s, hgt) ==
    {process_input_event(s, hgt, e).state :
        e \in {e \in ProducedEvents : process_input_event(s, hgt, e).ret}}

RECURSIVE LeadsToHUD(_, _, _)
\* Some sequence of at most n handled events leads from s to GameHUD.
LeadsToHUD(s, hgt, n) ==
    \/ s.current_screen = "GameHUD"
    \/ /\ n > 0
       /\ \E t \in HandledSuccessors(s, hgt) : LeadsToHUD(t, hgt, n - 1)

\* C27: no screen is terminal: from every reachable state a sequence of
\* handled input events (at most MaxPath of them) leads to GameHUD, from
\* GameHUD a handled event opens each overlay, and on every reachable
\* screen some event is handled.
C27_NoTerminalScreen ==
    /\ LeadsToHUD(state, height, MaxPath)
    /\ state.current_screen = "GameHUD" =>
         \A o \in Overlays :
            \E t \in HandledSuccessors(state, height) : t.current_screen = o
    /\ HandledSuccessors(state, height) # {}

\* Escape has just led back to LoginScreen, the screen farthest from
\* GameHUD: no shorter sequence leads there.
C27_Witness ==
    /\ call.op = "handle_input" /\ call.event = "Escape" /\ call.ret
    /\ state.current_screen = "LoginScreen"
    /\ ~LeadsToHUD(state, height, MaxPath - 1)

\* The key codes bound to each held flag.
KeysOf(flag) == {k \in MovementKeys : FlagOf(k) = flag}

\* Each held flag is true exactly when a key bound to it is down.
FlagsMatchKeys ==
    \A flag \in {"move_up", "move_down", "move_left", "move_right"} :
       input_handler.state[flag] = (keys_down \cap KeysOf(flag) # {})

\* C28: a direction's held flag is true exactly when at least one key bound
\* to the direction is down: it is so on a new handler, and every key-down
\* and every key-up of a key that is down keeps it so (with KeyW and ArrowUp
\* down, the key-up of one of them leaves move_up held).
C28_FlagIffKeyPressed ==
    /\ FlagsMatchKeys
    /\ [][(/\ FlagsMatchKeys
           /\ \E k \in MovementKeys :
                 \/ KeyDown(k)
                 \/ k \in keys_down /\ KeyUp(k))
            => FlagsMatchKeys']_vars

\* C29: a frame update advances the ball on GameHUD only: on every other
\* screen ball position and velocity are what they were, while the player
\* is still moved on that frame; on GameHUD the ball is updated.
C29_BallOnlyOnHUD ==
    /\ [](\A f \in FlagSets :
            LET s == Game_update(state, WithFlags(input_handler, f))
            IN  state.current_screen # "GameHUD" =>
                  /\ s.ball_x = state.ball_x /\ s.ball_y = state.ball_y
                  /\ s.ball_dx = state.ball_dx /\ s.ball_dy = state.ball_dy)
    /\ [][call'.op = "update" =>
            /\ state.current_screen # "GameHUD" =>
                 /\ state'.ball_x = state.ball_x
                 /\ state'.ball_y = state.ball_y
                 /\ state'.ball_dx = state.ball_dx
                 /\ state'.ball_dy = state.ball_dy
                 /\ (input_handler.state.move_right
                     /\ state.player_x < state.world_width)
                      => state'.player_x > state.player_x
            /\ state.current_screen = "GameHUD" =>
                 /\ state'.ball_x = update_ball_physics(state).ball_x
                 /\ state'.ball_y = update_ball_physics(state).ball_y
                 /\ state'.ball_dx = update_ball_physics(state).ball_dx
                 /\ state'.ball_dy = update_ball_physics(state).ball_dy]_vars

\* A frame update on Inventory has just moved the player to the right
\* while the ball kept the velocity that an earlier update on GameHUD had
\* reversed.
C29_Witness ==
    /\ call.op = "update"
    /\ state.current_screen = "Inventory"
    /\ state.player_x > state.world_width \div 2
    /\ state.ball_dx = -Fx(3) /\ state.ball_dy = -Fx(2)

====
